---- MODULE Spec2Model ----
(***************************************************************************)
(* TorrentManager of torrentfs (src/unnamed/part_000): the command         *)
(* dispatcher (mainLoop), its add / update / drop workers, the metadata    *)
(* waiters (Torrent.GetTorrent), the progress scheduler                    *)
(* (listenTorrentProgress), piece verification (verifyTorrent) and the     *)
(* part of the file system and of the swarm client that they read and      *)
(* write.                                                                  *)
(*                                                                         *)
(* Go values are modelled as follows.  tm.torrents is a map from info hash *)
(* to *Torrent: `torrents` maps a hash to an object number and `heap`      *)
(* holds the objects, so a goroutine that keeps a pointer to a Torrent     *)
(* that was deleted from the map still reads and writes that object.       *)
(* Goroutines started with `go` are the elements of the bag `workers`.     *)
(* File contents are kept at block granularity: one symbol of a file       *)
(* stands for Unit bytes.                                                  *)
(***************************************************************************)
EXTENDS Bags, FiniteSets, Integers, Sequences, TLC

VARIABLES
    started,        \* Start() was called: mainLoop and listenTorrentProgress run
    closeAll,       \* "open" | "closed": the closeAll channel
    mainLoopPc,     \* "idle" | "run" | "returned"
    halt,           \* tm.halt
    clientClosed,   \* tm.client.Close() was called
    newTorrent,     \* channel tm.newTorrent (a queue of inputs)
    removeTorrent,  \* channel tm.removeTorrent
    updateTorrent,  \* channel tm.updateTorrent
    mu,             \* tm.mu is held
    torrents,       \* tm.torrents: info hash -> object number
    heap,           \* the Torrent objects ever made, by object number
    workers,        \* bag of running goroutines (add, update, drop, GetTorrent)
    sched,          \* listenTorrentProgress: its position in the loop
    perm,           \* file system: DataDir/<ih> per hash
    tmpTorrent,     \* file system: TmpDataDir/<ih>/torrent per hash
    tmpHave,        \* file system: pieces of <ih> present under TmpDataDir/<ih>
    crashed,        \* the process died: a nil dereference, or the runtime's
                    \* fatal error on concurrent map access
    ret,            \* the value returned by the last call of the caller
    regs,           \* per hash: registrations client.AddTorrentSpec made
    drops,          \* per hash: Torrent.Drop calls made by DropMagnet
    ncmds,          \* commands submitted so far, per kind; asked: the adds of a
                    \* readable identifier, per hash
    waiting,        \* the submit calls that wait in a channel send
    refuses         \* the swarm client fails the registrations it is asked for

vars == <<started, closeAll, mainLoopPc, halt, clientClosed, newTorrent,
          removeTorrent, updateTorrent, mu, torrents, heap, workers, sched,
          perm, tmpTorrent, tmpHave, crashed, ret, regs, drops, ncmds,
          waiting, refuses>>

-----------------------------------------------------------------------------
(* Bounds of the model *)

\* number of distinct content ids
NumHashes == 1
\* commands submitted over a run, and the add commands among them
MaxCmds == 3
MaxAdds == 2
\* GetTorrent goroutines waiting on one Torrent at a time
MaxWaiters == 2

-----------------------------------------------------------------------------
(* Program constants, part_000 lines 29-42 *)

defaultBytesLimitation == 512 * 1024
removeTorrentChanBuffer == 16
newTorrentChanBuffer == 32
updateTorrentChanBuffer == 32
torrentPending == 0
torrentPaused == 1
torrentRunning == 2
torrentSeeding == 3
defaultTmpFilePath == ".tmp"

\* An int64 is the pair <<k, x>> that stands for k * 2^63 + x, with k in
\* {-1, 0, 1} and x small: <<0, x>> is the number x, and the two ends of the
\* type are MinInt64 = -2^63 and MaxInt64 = 2^63 - 1.
Int64(x) == <<0, x>>
MinInt64 == <<-1, 0>>
MaxInt64 == <<1, -1>>
Less(a, b) == a[1] < b[1] \/ (a[1] = b[1] /\ a[2] < b[2])

\* int64(float64(x) * expansionFactor), expansionFactor = 1.25: the values the
\* conversion can give.  For a small non-negative x the product is exact in
\* float64 and the conversion truncates it.  At either end of int64 the
\* product (about 1.25 * 2^63 in magnitude) is outside int64, and the result
\* of a float-to-integer conversion that does not fit is implementation
\* dependent in Go: MinInt64 on amd64, the saturated MaxInt64 on arm64.
Expand(r) ==
    IF r[1] = 0 THEN { Int64((r[2] * 5) \div 4) } ELSE { MinInt64, MaxInt64 }

-----------------------------------------------------------------------------
(* Content ids, paths and identifiers *)

HexString(i) == <<"a1", "b2", "c3">>[i]
Hashes == { HexString(i) : i \in 1..NumHashes }

\* path.Join of a directory and further elements
Join(dir, rest) == dir \o rest

DataDir == <<"data">>
\* NewTorrentManager: tmpFilePath := path.Join(config.DataDir, defaultTmpFilePath)
TmpDataDir == Join(DataDir, <<defaultTmpFilePath>>)

TmpDir(ih) == Join(TmpDataDir, <<ih>>)
ExistDir(ih) == Join(DataDir, <<ih>>)
torrentPathOf(ih) == Join(TmpDataDir, <<ih, "torrent">>)
seedTorrentPathOf(ih) == Join(DataDir, <<ih, "torrent">>)

\* A descriptor file some caller keeps outside the data directory, and a path
\* at which there is no readable descriptor.
UserFile(ih) == <<"descriptors", ih>>
BadFile(ih) == <<"nowhere", ih>>

\* The identifiers a caller submits: "magnet:?xt=urn:btih:<ih>" or a path.
Magnet(ih) == [magnet |-> TRUE, ih |-> ih, path |-> <<>>]
PathInput(p) == [magnet |-> FALSE, ih |-> "", path |-> p]

\* strings.HasPrefix(uri, "magnet:?xt=urn:btih:")
isMagnetURI(input) == input.magnet

GoodAddInputs ==
    { Magnet(ih) : ih \in Hashes } \cup { PathInput(UserFile(ih)) : ih \in Hashes }

AddInputs == GoodAddInputs \cup { PathInput(BadFile(ih)) : ih \in Hashes }

RemoveInputs ==
    { Magnet(ih) : ih \in Hashes } \cup { PathInput(UserFile(ih)) : ih \in Hashes }

\* FlowControlMeta.BytesRequested values a caller submits
Requests == { Int64(100 * 1024), Int64(1000 * 1024), Int64(1000 * 1024 + 1), MaxInt64 }

-----------------------------------------------------------------------------
(* Descriptors (metainfo.Info) and on-disk data *)

\* bytes one symbol of file content stands for
Unit == 512 * 1024

\* The content every hash of the model describes: two files of 1 and 2
\* symbols, cut into pieces of 2 symbols, so that piece 0 spans both files
\* and the last piece is short.
GoodFiles == << <<0>>, <<1, 1>> >>

RECURSIVE Concat(_)
Concat(ss) == IF ss = <<>> THEN <<>> ELSE Head(ss) \o Concat(Tail(ss))

\* sha1 of a byte string, as an injective code of the string
RECURSIVE sha1Sum(_)
sha1Sum(s) == IF s = <<>> THEN 1 ELSE 3 * sha1Sum(SubSeq(s, 1, Len(s) - 1)) + s[Len(s)] + 1

Min(a, b) == IF a < b THEN a ELSE b

\* io.SectionReader over a span: the bytes at [off, off + n) that exist
Section(span, off, n) == SubSeq(span, off + 1, Min(off + n, Len(span)))

InfoPieceLength == 2
InfoTotal == Len(Concat(GoodFiles))
InfoNumPieces == (InfoTotal + InfoPieceLength - 1) \div InfoPieceLength
PieceOffset(i) == i * InfoPieceLength
PieceLen(i) == Min(InfoPieceLength, InfoTotal - PieceOffset(i))

\* metainfo.Info of hash ih, as LoadFromFile / UnmarshalInfo give it
InfoOf(ih) ==
    [ Name   |-> ih,
      Files  |-> [ k \in 1..Len(GoodFiles) |-> [Length |-> Len(GoodFiles[k])] ],
      Pieces |-> [ i \in 1..InfoNumPieces |->
                     sha1Sum(Section(Concat(GoodFiles), PieceOffset(i - 1), PieceLen(i - 1))) ] ]

\* A directory's files as verifyTorrent finds them: per file of the
\* descriptor, whether it can be opened and its bytes.
Missing == [present |-> FALSE, bytes |-> <<>>]
File(bytes) == [present |-> TRUE, bytes |-> bytes]
DiskOf(files) == [ k \in 1..Len(files) |-> File(files[k]) ]

\* mmapFile: an error for a file that cannot be opened, else its bytes (no
\* mapping, and no error, for an empty file)
mmapFile(f) == [err |-> ~f.present, mm |-> f.bytes]

\* the first k files all open and have the descriptor's length
RECURSIVE FilesOk(_, _, _)
FilesOk(info, disk, k) ==
    IF k = 0 THEN TRUE
    ELSE /\ FilesOk(info, disk, k - 1)
         /\ ~mmapFile(disk[k]).err
         /\ Len(mmapFile(disk[k]).mm) = info.Files[k].Length

SpanOf(disk) == Concat([ k \in 1..Len(disk) |-> mmapFile(disk[k]).mm ])

PieceGood(info, span, i) ==
    sha1Sum(Section(span, PieceOffset(i), PieceLen(i))) = info.Pieces[i + 1]

\* a verification that compares the file lengths only
verifyLengths(info, disk) == FilesOk(info, disk, Len(info.Files))

\* verifyTorrent(info, root) = nil, `disk` being the files under root/info.Name
verifyTorrent(info, disk) ==
    /\ FilesOk(info, disk, Len(info.Files))
    /\ \A i \in 0..(Len(info.Pieces) - 1) : PieceGood(info, SpanOf(disk), i)

\* The data directories a permanent directory may hold when the manager is
\* constructed: the descriptor's content, a flipped byte in the first or in
\* the last piece, a file one byte short, a file one byte long, a file absent.
PermDisks ==
    { DiskOf(GoodFiles),
      DiskOf(<< <<1>>, <<1, 1>> >>),
      DiskOf(<< <<0>>, <<1, 0>> >>),
      DiskOf(<< <<0>>, <<1>> >>),
      DiskOf(<< <<0>>, <<1, 1, 1>> >>),
      << File(<<0>>), Missing >> }

\* The files under TmpDataDir/<ih> once `have` pieces were downloaded: the
\* bytes of the pieces present, the other bytes still holes (symbol 2); no
\* file at all before the first piece.
TmpDisk(have) ==
    IF have = 0 THEN [ k \in 1..Len(GoodFiles) |-> Missing ]
    ELSE LET n == Min(have * InfoPieceLength, InfoTotal)
             byte(pos, b) == IF pos <= n THEN b ELSE 2
             start(k) == Len(Concat(SubSeq(GoodFiles, 1, k - 1)))
         IN  [ k \in 1..Len(GoodFiles) |->
                 File([ j \in 1..Len(GoodFiles[k]) |-> byte(start(k) + j, GoodFiles[k][j]) ]) ]

-----------------------------------------------------------------------------
(* File system *)

NoPerm == [kind |-> "absent", target |-> <<>>, disk |-> <<>>]
PermDirOf(disk) == [kind |-> "dir", target |-> <<>>, disk |-> disk]
PermLinkTo(target) == [kind |-> "link", target |-> target, disk |-> <<>>]

\* os.Symlink(oldname, newname): nothing changes (EEXIST, ignored by the
\* caller) when newname exists; else newname becomes a link holding oldname.
Symlink(p, oldname) == IF p.kind = "absent" THEN PermLinkTo(oldname) ELSE p

\* Where DataDir/<ih> leads: a relative link target is resolved against the
\* directory that holds the link.
ResolveExistDir(ih) ==
    IF perm[ih].kind = "link" THEN Join(DataDir, perm[ih].target) ELSE ExistDir(ih)

\* os.Stat(ExistDir) = nil: the path exists (a link, always to a directory
\* of TmpDataDir, which NewTorrentManager and the storage create)
ExistDirExists(ih) == perm[ih].kind # "absent"

\* the files verifyTorrent reads under ExistDir
ExistDisk(ih) ==
    IF perm[ih].kind = "dir" THEN perm[ih].disk
    ELSE IF ResolveExistDir(ih) = TmpDir(ih) THEN TmpDisk(tmpHave[ih])
    ELSE [ k \in 1..Len(GoodFiles) |-> Missing ]

\* state of the descriptor file at path p: "absent" | "empty" | "written",
\* and the hash it describes
FileState(p) ==
    IF \E ih \in Hashes : p = UserFile(ih) THEN "written"
    ELSE IF \E ih \in Hashes : p = torrentPathOf(ih)
         THEN tmpTorrent[CHOOSE ih \in Hashes : p = torrentPathOf(ih)]
    ELSE IF \E ih \in Hashes : p = seedTorrentPathOf(ih)
         THEN LET ih == CHOOSE h \in Hashes : p = seedTorrentPathOf(h)
              IN  IF perm[ih].kind = "link" /\ ResolveExistDir(ih) = TmpDir(ih)
                  THEN tmpTorrent[ih] ELSE "absent"
    ELSE "absent"

HashOfFile(p) == p[Len(p) - (IF p[Len(p)] = "torrent" THEN 1 ELSE 0)]

\* the content id an identifier names
HashOfInput(input) == IF isMagnetURI(input) THEN input.ih ELSE HashOfFile(input.path)

-----------------------------------------------------------------------------
(* Torrent: the struct of lines 45-53 with the swarm client's handle *)

\* The embedded *torrent.Torrent: where it stores, whether its info is known
\* (GotInfo is closed), whether Drop closed it, whether DownloadAll was
\* asked for, whether VerifyData was asked for, and the pieces it has
\* complete.  nil is the nil pointer that a failed AddTorrentSpec may hand
\* back.
NewHandle(storage, info) ==
    [storage |-> storage, info |-> info, closed |-> FALSE, wanted |-> FALSE, have |-> 0,
     nil |-> FALSE, verified |-> FALSE]

\* what AddTorrentSpec hands back beside its error: nil, or a handle that the
\* client does not run, whose info never comes
FailedHandles(storage) ==
    { [storage |-> storage, info |-> FALSE, closed |-> TRUE, wanted |-> FALSE, have |-> 0,
       nil |-> b, verified |-> FALSE] : b \in BOOLEAN }

\* a Torrent whose first limitation is the bare default
NewTorrentObjFloor(ih, handle, torrentPath) ==
    [ ih              |-> ih,
      Torrent         |-> handle,
      bytesRequested  |-> Int64(defaultBytesLimitation),
      bytesLimitation |-> Int64(defaultBytesLimitation),
      bytesCompleted  |-> 0,
      bytesMissing    |-> 0,
      status          |-> torrentPending,
      torrentPath     |-> torrentPath ]

\* &Torrent{t, defaultBytesLimitation, int64(defaultBytesLimitation * expansionFactor),
\*          0, 0, torrentPending, torrentPath}
NewTorrentObj(ih, handle, torrentPath) ==
    [ ih              |-> ih,
      Torrent         |-> handle,
      bytesRequested  |-> Int64(defaultBytesLimitation),
      bytesLimitation |-> Int64((defaultBytesLimitation * 5) \div 4),
      bytesCompleted  |-> 0,
      bytesMissing    |-> 0,
      status          |-> torrentPending,
      torrentPath     |-> torrentPath ]

BytesCompleted(t) == Min(t.Torrent.have * InfoPieceLength, InfoTotal) * Unit
BytesMissing(t) == InfoTotal * Unit - BytesCompleted(t)

Seeding(t) == t.status = torrentSeeding
Paused(t) == t.status = torrentPaused
Running(t) == t.status = torrentRunning
Pending(t) == t.status = torrentPending

\* Torrent.Seed: VerifyData, DownloadAll, status = torrentSeeding
Seed(t) ==
    [t EXCEPT !.Torrent.verified = TRUE, !.Torrent.wanted = TRUE, !.status = torrentSeeding]

\* Torrent.Pause
Pause(t) ==
    IF t.status # torrentPaused
    THEN [t EXCEPT !.status = torrentPaused, !.Torrent.closed = TRUE]
    ELSE t

\* Torrent.Run
Run(t) ==
    IF t.status = torrentRunning THEN t
    ELSE [t EXCEPT !.Torrent.wanted = TRUE, !.status = torrentRunning]

-----------------------------------------------------------------------------
(* Goroutines *)

NoReq == Int64(0)
Worker(kind, pc, ih, path, req, obj) ==
    [kind |-> kind, pc |-> pc, ih |-> ih, path |-> path, req |-> req, obj |-> obj,
     seq |-> 0]

Running1(w) == SetToBag({w})
Finish(w) == workers (-) Running1(w)
Become(w, v) == (workers (-) Running1(w)) (+) Running1(v)
Spawn(v) == workers (+) Running1(v)
Live == BagToSet(workers)

Tracked == DOMAIN torrents
\* a lookup that never finds the hash
AlreadyTrackedNever(ih) == FALSE
\* _, ok := tm.torrents[ih]
AlreadyTracked(ih) == ih \in Tracked
\* a Lock that never waits
CanLockAlways == TRUE
\* tm.mu.Lock() returns: nobody holds tm.mu
CanLock == ~mu
\* a return that leaves tm.mu held
StillLocked == TRUE
\* defer tm.mu.Unlock(): tm.mu after the return of the function that took it
Unlocked == FALSE
\* tm.torrents[ih], for a tracked hash
At(ih) == heap[torrents[ih]]
Insert(ih, n) == [ h \in Tracked \cup {ih} |-> IF h = ih THEN n ELSE torrents[h] ]
\* a delete that leaves the map as it is
DeleteNothing(ih) == torrents
Delete(ih) == [ h \in Tracked \ {ih} |-> torrents[h] ]

NoRet == [op |-> "none", ih |-> "", val |-> FALSE]

-----------------------------------------------------------------------------
(* Initial state: NewTorrentManager, lines 375-422.  The temporary directory  *)
(* is new; the data directory may hold a directory for a hash already.        *)

InitWith(perms, fails) ==
    /\ started = FALSE
    /\ closeAll = "open"
    /\ mainLoopPc = "idle"
    /\ halt = FALSE
    /\ clientClosed = FALSE
    /\ newTorrent = <<>>
    /\ removeTorrent = <<>>
    /\ updateTorrent = <<>>
    /\ mu = FALSE
    /\ torrents = [h \in {} |-> 0]
    /\ heap = <<>>
    /\ workers = EmptyBag
    /\ sched = [pc |-> "idle", visited |-> {}, obj |-> 0, branch |-> ""]
    /\ perm \in [Hashes -> perms]
    /\ tmpTorrent = [ih \in Hashes |-> "absent"]
    /\ tmpHave = [ih \in Hashes |-> 0]
    /\ crashed = FALSE
    /\ ret = NoRet
    /\ regs = [ih \in Hashes |-> 0]
    /\ drops = [ih \in Hashes |-> 0]
    /\ ncmds = [add |-> 0, remove |-> 0, update |-> 0, asked |-> [ih \in Hashes |-> 0]]
    /\ waiting = {}
    /\ refuses \in fails

Init == InitWith({NoPerm} \cup { PermDirOf(d) : d \in PermDisks }, {FALSE})

\* an empty data directory
InitEmpty == InitWith({NoPerm}, {FALSE})

\* an empty data directory and a swarm client that may fail a registration
InitRefuses == InitWith({NoPerm}, {TRUE})

-----------------------------------------------------------------------------
(* The caller: Start, Close and the three submit operations, lines 130-149,   *)
(* 424-430                                                                    *)

NumCmds == ncmds.add + ncmds.remove + ncmds.update

\* the model's caller submits MaxCmds commands at most, MaxAdds of them adds
MayAdd == NumCmds < MaxCmds /\ ncmds.add < MaxAdds
MayRemove == NumCmds < MaxCmds
MayUpdate == NumCmds < MaxCmds

Start ==
    /\ ~crashed /\ ~started
    /\ started' = TRUE
    /\ mainLoopPc' = "run"
    /\ sched' = [sched EXCEPT !.pc = "top"]
    /\ UNCHANGED <<waiting, refuses,
                   closeAll, halt, clientClosed, newTorrent, removeTorrent,
                   updateTorrent, mu, torrents, heap, workers, perm, tmpTorrent,
                   tmpHave, crashed, ret, regs, drops, ncmds>>

Close ==
    /\ ~crashed /\ closeAll = "open"
    /\ closeAll' = "closed"
    /\ UNCHANGED <<waiting, refuses,
                   started, mainLoopPc, halt, clientClosed, newTorrent,
                   removeTorrent, updateTorrent, mu, torrents, heap, workers,
                   sched, perm, tmpTorrent, tmpHave, crashed, ret, regs, drops,
                   ncmds>>

\* the nil error that NewTorrent, RemoveTorrent and UpdateTorrent return
Sent == [op |-> "submit", ih |-> "", val |-> TRUE]

\* tm.newTorrent <- input, with room in the buffer; return nil
NewTorrent(input) ==
    /\ ~crashed
    /\ Len(newTorrent) < newTorrentChanBuffer
    /\ newTorrent' = Append(newTorrent, input)
    /\ ret' = Sent
    /\ ncmds' = [ncmds EXCEPT !.add = @ + 1,
                               !.asked = IF input \in GoodAddInputs
                                         THEN [@ EXCEPT ![HashOfInput(input)] = @ + 1]
                                         ELSE @]
    /\ UNCHANGED <<waiting, refuses,
                   started, closeAll, mainLoopPc, halt, clientClosed,
                   removeTorrent, updateTorrent, mu, torrents, heap, workers,
                   sched, perm, tmpTorrent, tmpHave, crashed, regs, drops>>

\* tm.removeTorrent <- input, with room in the buffer; return nil
RemoveTorrent(input) ==
    /\ ~crashed
    /\ Len(removeTorrent) < removeTorrentChanBuffer
    /\ removeTorrent' = Append(removeTorrent, input)
    /\ ret' = Sent
    /\ ncmds' = [ncmds EXCEPT !.remove = @ + 1]
    /\ UNCHANGED <<waiting, refuses,
                   started, closeAll, mainLoopPc, halt, clientClosed,
                   newTorrent, updateTorrent, mu, torrents, heap, workers,
                   sched, perm, tmpTorrent, tmpHave, crashed, regs, drops>>

\* tm.updateTorrent <- input, with room in the buffer; return nil
UpdateTorrent(meta) ==
    /\ ~crashed
    /\ Len(updateTorrent) < updateTorrentChanBuffer
    /\ updateTorrent' = Append(updateTorrent, meta)
    /\ ret' = Sent
    /\ ncmds' = [ncmds EXCEPT !.update = @ + 1]
    /\ UNCHANGED <<waiting, refuses,
                   started, closeAll, mainLoopPc, halt, clientClosed,
                   newTorrent, removeTorrent, mu, torrents, heap, workers,
                   sched, perm, tmpTorrent, tmpHave, crashed, regs, drops>>

\* tm.removeTorrent <- input with the buffer full: the send, and with it the
\* caller of RemoveTorrent, waits (the model keeps one waiting call per input)
RemoveTorrentWaits(input) ==
    /\ ~crashed
    /\ Len(removeTorrent) = removeTorrentChanBuffer
    /\ [op |-> "RemoveTorrent", input |-> input] \notin waiting
    /\ waiting' = waiting \cup {[op |-> "RemoveTorrent", input |-> input]}
    /\ UNCHANGED <<refuses, started, closeAll, mainLoopPc, halt, clientClosed,
                   newTorrent, removeTorrent, updateTorrent, mu, torrents, heap,
                   workers, sched, perm, tmpTorrent, tmpHave, crashed, ret, regs,
                   drops, ncmds>>

\* a waiting send goes through once mainLoop has made room; return nil
RemoveTorrentResumes(c) ==
    /\ ~crashed
    /\ c \in waiting /\ c.op = "RemoveTorrent"
    /\ Len(removeTorrent) < removeTorrentChanBuffer
    /\ removeTorrent' = Append(removeTorrent, c.input)
    /\ waiting' = waiting \ {c}
    /\ ret' = Sent
    /\ ncmds' = [ncmds EXCEPT !.remove = @ + 1]
    /\ UNCHANGED <<refuses, started, closeAll, mainLoopPc, halt, clientClosed,
                   newTorrent, updateTorrent, mu, torrents, heap, workers,
                   sched, perm, tmpTorrent, tmpHave, crashed, regs, drops>>

-----------------------------------------------------------------------------
(* mainLoop, lines 432-456: one action per case of the select *)

MainLoopNew ==
    /\ ~crashed /\ mainLoopPc = "run" /\ newTorrent # <<>>
    /\ LET input == Head(newTorrent)
       IN  workers' =
             IF isMagnetURI(input)
             THEN Spawn(Worker("AddMagnet", "stat", input.ih, <<>>, NoReq, 0))
             ELSE Spawn(Worker("AddTorrent", "load", "", input.path, NoReq, 0))
    /\ newTorrent' = Tail(newTorrent)
    /\ UNCHANGED <<waiting, refuses,
                   started, closeAll, mainLoopPc, halt, clientClosed,
                   removeTorrent, updateTorrent, mu, torrents, heap, sched,
                   perm, tmpTorrent, tmpHave, crashed, ret, regs, drops, ncmds>>

MainLoopRemove ==
    /\ ~crashed /\ mainLoopPc = "run" /\ removeTorrent # <<>>
    /\ LET input == Head(removeTorrent)
       IN  workers' =
             IF isMagnetURI(input)
             THEN Spawn(Worker("DropMagnet", "lookup", input.ih, <<>>, NoReq, 0))
             ELSE workers
    /\ removeTorrent' = Tail(removeTorrent)
    /\ UNCHANGED <<waiting, refuses,
                   started, closeAll, mainLoopPc, halt, clientClosed,
                   newTorrent, updateTorrent, mu, torrents, heap, sched, perm,
                   tmpTorrent, tmpHave, crashed, ret, regs, drops, ncmds>>

\* the place of the head of tm.updateTorrent among the updates submitted
UpdateOrdinal == ncmds.update - Len(updateTorrent) + 1

\* lines 447-449: go tm.UpdateMagnet(...).  seq, which the code does not
\* keep, remembers the place the command had in its channel.
MainLoopUpdate ==
    /\ ~crashed /\ mainLoopPc = "run" /\ updateTorrent # <<>>
    /\ LET meta == Head(updateTorrent)
       IN  workers' = Spawn([Worker("UpdateMagnet", "lock", meta.InfoHash, <<>>,
                                    meta.BytesRequested, 0)
                             EXCEPT !.seq = UpdateOrdinal])
    /\ updateTorrent' = Tail(updateTorrent)
    /\ UNCHANGED <<waiting, refuses,
                   started, closeAll, mainLoopPc, halt, clientClosed,
                   newTorrent, removeTorrent, mu, torrents, heap, sched, perm,
                   tmpTorrent, tmpHave, crashed, ret, regs, drops, ncmds>>

MainLoopClose ==
    /\ ~crashed /\ mainLoopPc = "run" /\ closeAll = "closed"
    /\ halt' = TRUE
    /\ clientClosed' = TRUE
    /\ mainLoopPc' = "returned"
    /\ UNCHANGED <<waiting, refuses,
                   started, closeAll, newTorrent, removeTorrent, updateTorrent,
                   mu, torrents, heap, workers, sched, perm, tmpTorrent,
                   tmpHave, crashed, ret, regs, drops, ncmds>>

-----------------------------------------------------------------------------
(* AddTorrent, lines 205-293 *)

\* lines 206-215: os.Stat, metainfo.LoadFromFile, the info hash
AddTorrentLoad(w) ==
    /\ ~crashed /\ w.kind = "AddTorrent" /\ w.pc = "load"
    /\ workers' =
         IF FileState(w.path) = "written"
         THEN Become(w, [w EXCEPT !.pc = "lock", !.ih = HashOfFile(w.path)])
         ELSE Finish(w)
    /\ UNCHANGED <<waiting, refuses,
                   started, closeAll, mainLoopPc, halt, clientClosed,
                   newTorrent, removeTorrent, updateTorrent, mu, torrents, heap,
                   sched, perm, tmpTorrent, tmpHave, crashed, ret, regs, drops,
                   ncmds>>

\* lines 228-240
useExistDir(ih) == ExistDirExists(ih) /\ verifyTorrent(InfoOf(ih), ExistDisk(ih))

\* lines 244-245, 269: spec.Storage
StorageFor(ih) == IF useExistDir(ih) THEN ExistDir(ih) ELSE TmpDir(ih)

\* lines 218-224: tm.mu.Lock(); a hash that is tracked already ends the call
\* (the deferred Unlock), any other leaves tm.mu held
AddTorrentLock(w) ==
    /\ ~crashed /\ w.kind = "AddTorrent" /\ w.pc = "lock"
    /\ CanLock
    /\ IF AlreadyTracked(w.ih)
       THEN /\ workers' = Finish(w)
            /\ UNCHANGED mu
       ELSE /\ workers' = Become(w, [w EXCEPT !.pc = "insert"])
            /\ mu' = TRUE
    /\ UNCHANGED <<waiting, refuses,
                   started, closeAll, mainLoopPc, halt, clientClosed,
                   newTorrent, removeTorrent, updateTorrent, torrents, heap,
                   sched, perm, tmpTorrent, tmpHave, crashed, ret, regs, drops,
                   ncmds>>

\* t, _, err := tm.client.AddTorrentSpec(spec): the handle and the error.  A
\* client that refuses, or that was closed, may fail the call.
AddTorrentSpec(storage, info) ==
    {[t |-> NewHandle(storage, info), err |-> FALSE]}
    \cup (IF refuses \/ clientClosed
          THEN { [t |-> h, err |-> TRUE] : h \in FailedHandles(storage) }
          ELSE {})

\* lines 225-265 / 269-289: choose the storage, AddTorrentSpec with its error
\* dropped (line 253, 277), insert at Pending
AddTorrentInsert(w) ==
    /\ ~crashed /\ w.kind = "AddTorrent" /\ w.pc = "insert"
    /\ \E r \in AddTorrentSpec(StorageFor(w.ih), TRUE) :
          /\ regs' = [regs EXCEPT ![w.ih] = IF r.err THEN @ ELSE @ + 1]
          /\ heap' = Append(heap, NewTorrentObj(w.ih, r.t, torrentPathOf(w.ih)))
    /\ torrents' = Insert(w.ih, Len(heap) + 1)
    /\ workers' = Become(w, [w EXCEPT !.pc = "run"])
    /\ UNCHANGED <<waiting, refuses,
                   started, closeAll, mainLoopPc, halt, clientClosed,
                   newTorrent, removeTorrent, updateTorrent, mu, sched, perm,
                   tmpTorrent, tmpHave, crashed, ret, drops, ncmds>>

\* lines 267 / 291: tm.torrents[ih].Run(), then the deferred Unlock.  A nil
\* *Torrent (the entry was deleted meanwhile) is dereferenced by Run, and so
\* is the nil handle of a failed registration by DownloadAll.
AddTorrentRun(w) ==
    /\ ~crashed /\ w.kind = "AddTorrent" /\ w.pc = "run"
    /\ IF w.ih \in Tracked /\ ~At(w.ih).Torrent.nil
       THEN /\ heap' = [heap EXCEPT ![torrents[w.ih]] = Run(@)]
            /\ UNCHANGED crashed
       ELSE /\ crashed' = TRUE
            /\ UNCHANGED heap
    /\ mu' = Unlocked
    /\ workers' = Finish(w)
    /\ UNCHANGED <<waiting, refuses,
                   started, closeAll, mainLoopPc, halt, clientClosed,
                   newTorrent, removeTorrent, updateTorrent, torrents, sched,
                   perm, tmpTorrent, tmpHave, ret, regs, drops, ncmds>>

-----------------------------------------------------------------------------
(* AddMagnet, lines 295-343 *)

\* lines 296-311: a descriptor persisted under the permanent or the temporary
\* directory turns the call into AddTorrent of that file
AddMagnetStat(w) ==
    /\ ~crashed /\ w.kind = "AddMagnet" /\ w.pc = "stat"
    /\ workers' =
         IF FileState(seedTorrentPathOf(w.ih)) # "absent"
         THEN Become(w, Worker("AddTorrent", "load", "", seedTorrentPathOf(w.ih), NoReq, 0))
         ELSE IF FileState(torrentPathOf(w.ih)) # "absent"
         THEN Become(w, Worker("AddTorrent", "load", "", torrentPathOf(w.ih), NoReq, 0))
         ELSE Become(w, [w EXCEPT !.pc = "lock"])
    /\ UNCHANGED <<waiting, refuses,
                   started, closeAll, mainLoopPc, halt, clientClosed,
                   newTorrent, removeTorrent, updateTorrent, mu, torrents, heap,
                   sched, perm, tmpTorrent, tmpHave, crashed, ret, regs, drops,
                   ncmds>>

\* lines 314-320: tm.mu.Lock(); a hash that is tracked already ends the call
\* (the deferred Unlock), any other leaves tm.mu held
AddMagnetLock(w) ==
    /\ ~crashed /\ w.kind = "AddMagnet" /\ w.pc = "lock"
    /\ CanLock
    /\ IF AlreadyTracked(w.ih)
       THEN /\ workers' = Finish(w)
            /\ UNCHANGED mu
       ELSE /\ workers' = Become(w, [w EXCEPT !.pc = "insert"])
            /\ mu' = TRUE
    /\ UNCHANGED <<waiting, refuses,
                   started, closeAll, mainLoopPc, halt, clientClosed,
                   newTorrent, removeTorrent, updateTorrent, torrents, heap,
                   sched, perm, tmpTorrent, tmpHave, crashed, ret, regs, drops,
                   ncmds>>

\* lines 322-338: AddTorrentSpec of the bare magnet spec, its error never
\* looked at (line 329), insert at Pending
AddMagnetInsert(w) ==
    /\ ~crashed /\ w.kind = "AddMagnet" /\ w.pc = "insert"
    /\ \E r \in AddTorrentSpec(TmpDir(w.ih), FALSE) :
          /\ regs' = [regs EXCEPT ![w.ih] = IF r.err THEN @ ELSE @ + 1]
          /\ heap' = Append(heap, NewTorrentObj(w.ih, r.t, torrentPathOf(w.ih)))
    /\ torrents' = Insert(w.ih, Len(heap) + 1)
    /\ workers' = Become(w, [w EXCEPT !.pc = "spawn"])
    /\ UNCHANGED <<waiting, refuses,
                   started, closeAll, mainLoopPc, halt, clientClosed,
                   newTorrent, removeTorrent, updateTorrent, mu, sched, perm,
                   tmpTorrent, tmpHave, crashed, ret, drops, ncmds>>

\* line 342: go tm.torrents[ih].GetTorrent(), then the deferred Unlock.  With
\* the entry deleted meanwhile GetTorrent runs on a nil *Torrent.
AddMagnetSpawn(w) ==
    /\ ~crashed /\ w.kind = "AddMagnet" /\ w.pc = "spawn"
    /\ IF w.ih \in Tracked
       THEN /\ workers' = Become(w, Worker("GetTorrent", "wait", w.ih, <<>>, NoReq,
                                           torrents[w.ih]))
            /\ UNCHANGED crashed
       ELSE /\ crashed' = TRUE
            /\ workers' = Finish(w)
    /\ mu' = Unlocked
    /\ UNCHANGED <<waiting, refuses,
                   started, closeAll, mainLoopPc, halt, clientClosed,
                   newTorrent, removeTorrent, updateTorrent, torrents, heap,
                   sched, perm, tmpTorrent, tmpHave, ret, regs, drops, ncmds>>

-----------------------------------------------------------------------------
(* UpdateMagnet, lines 346-357, and DropMagnet, lines 360-372 *)

\* lines 351-354, on the Torrent the map holds
SetBudget(t, BytesRequested) ==
    IF Less(t.bytesLimitation, BytesRequested)
    THEN { [t EXCEPT !.bytesRequested = BytesRequested, !.bytesLimitation = v] :
           v \in Expand(BytesRequested) }
    ELSE { [t EXCEPT !.bytesRequested = BytesRequested] }

\* lines 348-350: tm.mu.Lock() and the lookup; a hash that is not tracked
\* ends the call (the deferred Unlock), any other leaves tm.mu held
UpdateMagnetLock(w) ==
    /\ ~crashed /\ w.kind = "UpdateMagnet" /\ w.pc = "lock"
    /\ CanLock
    /\ IF w.ih \in Tracked
       THEN /\ workers' = Become(w, [w EXCEPT !.pc = "write", !.obj = torrents[w.ih]])
            /\ mu' = TRUE
       ELSE /\ workers' = Finish(w)
            /\ UNCHANGED mu
    /\ UNCHANGED <<waiting, refuses,
                   started, closeAll, mainLoopPc, halt, clientClosed,
                   newTorrent, removeTorrent, updateTorrent, torrents, heap,
                   sched, perm, tmpTorrent, tmpHave, crashed, ret, regs, drops,
                   ncmds>>

\* lines 351-354 on the Torrent found, then the deferred Unlock
UpdateMagnetWrite(w) ==
    /\ ~crashed /\ w.kind = "UpdateMagnet" /\ w.pc = "write"
    /\ \E t \in SetBudget(heap[w.obj], w.req) :
           heap' = [heap EXCEPT ![w.obj] = t]
    /\ mu' = Unlocked
    /\ workers' = Finish(w)
    /\ UNCHANGED <<waiting, refuses,
                   started, closeAll, mainLoopPc, halt, clientClosed,
                   newTorrent, removeTorrent, updateTorrent, torrents,
                   sched, perm, tmpTorrent, tmpHave, crashed, ret, regs, drops,
                   ncmds>>

\* line 366: the lookup, without tm.mu; `return false` at line 371
DropMagnetLookup(w) ==
    /\ ~crashed /\ w.kind = "DropMagnet" /\ w.pc = "lookup"
    /\ IF w.ih \in Tracked
       THEN /\ workers' = Become(w, [w EXCEPT !.pc = "drop", !.obj = torrents[w.ih]])
            /\ UNCHANGED ret
       ELSE /\ workers' = Finish(w)
            /\ ret' = [op |-> "DropMagnet", ih |-> w.ih, val |-> FALSE]
    /\ UNCHANGED <<waiting, refuses,
                   started, closeAll, mainLoopPc, halt, clientClosed,
                   newTorrent, removeTorrent, updateTorrent, mu, torrents, heap,
                   sched, perm, tmpTorrent, tmpHave, crashed, regs, drops,
                   ncmds>>

\* lines 367-369: t.Torrent.Drop(), delete(tm.torrents, ih), return true.
\* Drop on the nil handle of a failed registration is a nil dereference.
DropMagnetDelete(w) ==
    /\ ~crashed /\ w.kind = "DropMagnet" /\ w.pc = "drop"
    /\ IF heap[w.obj].Torrent.nil
       THEN /\ crashed' = TRUE
            /\ UNCHANGED <<drops, torrents, ret, heap>>
       ELSE /\ drops' = [drops EXCEPT ![w.ih] = @ + 1]
            /\ torrents' = Delete(w.ih)
            /\ ret' = [op |-> "DropMagnet", ih |-> w.ih, val |-> TRUE]
            /\ heap' = [heap EXCEPT ![w.obj].Torrent.closed = TRUE]
            /\ UNCHANGED crashed
    /\ workers' = Finish(w)
    /\ UNCHANGED <<waiting, refuses,
                   started, closeAll, mainLoopPc, halt, clientClosed,
                   newTorrent, removeTorrent, updateTorrent, mu, sched, perm,
                   tmpTorrent, tmpHave, regs, ncmds>>

-----------------------------------------------------------------------------
(* Torrent.GetTorrent, lines 55-71 *)

\* lines 56-59: <-t.GotInfo(), then the status test.  GotInfo on the nil
\* handle of a failed registration is a nil dereference.
GetTorrentWait(w) ==
    /\ ~crashed /\ w.kind = "GetTorrent" /\ w.pc = "wait"
    /\ heap[w.obj].Torrent.info \/ heap[w.obj].Torrent.nil
    /\ crashed' = heap[w.obj].Torrent.nil
    /\ workers' =
         IF heap[w.obj].status # torrentPending \/ heap[w.obj].Torrent.nil
         THEN Finish(w)
         ELSE Become(w, [w EXCEPT !.pc = "write"])
    /\ UNCHANGED <<waiting, refuses,
                   started, closeAll, mainLoopPc, halt, clientClosed,
                   newTorrent, removeTorrent, updateTorrent, mu, torrents, heap,
                   sched, perm, tmpTorrent, tmpHave, ret, regs, drops,
                   ncmds>>

\* lines 63-70: os.Create(t.torrentPath), Metainfo().Write(f), status =
\* torrentPaused
GetTorrentWrite(w) ==
    /\ ~crashed /\ w.kind = "GetTorrent" /\ w.pc = "write"
    /\ tmpTorrent' = [tmpTorrent EXCEPT ![w.ih] = "written"]
    /\ heap' = [heap EXCEPT ![w.obj].status = torrentPaused]
    /\ workers' = Finish(w)
    /\ UNCHANGED <<waiting, refuses,
                   started, closeAll, mainLoopPc, halt, clientClosed,
                   newTorrent, removeTorrent, updateTorrent, mu, torrents,
                   sched, perm, tmpHave, crashed, ret, regs, drops, ncmds>>

\* lines 63-70 when os.Create fails: its error is dropped, f is nil, the
\* error of Write is logged, status = torrentPaused
GetTorrentWriteFails(w) ==
    /\ ~crashed /\ w.kind = "GetTorrent" /\ w.pc = "write"
    /\ heap' = [heap EXCEPT ![w.obj].status = torrentPaused]
    /\ workers' = Finish(w)
    /\ UNCHANGED <<waiting, refuses,
                   started, closeAll, mainLoopPc, halt, clientClosed,
                   newTorrent, removeTorrent, updateTorrent, mu, torrents,
                   sched, perm, tmpTorrent, tmpHave, crashed, ret, regs, drops,
                   ncmds>>

-----------------------------------------------------------------------------
(* listenTorrentProgress, lines 462-526 *)

Waiters(n) == { w \in Live : w.kind = "GetTorrent" /\ w.obj = n }
NumWaiters(n) ==
    LET ws == Waiters(n)
        RECURSIVE Sum(_)
        Sum(S) == IF S = {} THEN 0
                  ELSE LET x == CHOOSE y \in S : TRUE
                       IN  CopiesIn(x, workers) + Sum(S \ {x})
    IN  Sum(ws)

\* lines 464-467: the top of the loop body
SchedTop ==
    /\ ~crashed /\ sched.pc = "top"
    /\ sched' = IF halt THEN [sched EXCEPT !.pc = "exited"]
                ELSE [sched EXCEPT !.pc = "range", !.visited = {}]
    /\ UNCHANGED <<waiting, refuses,
                   started, closeAll, mainLoopPc, halt, clientClosed,
                   newTorrent, removeTorrent, updateTorrent, mu, torrents, heap,
                   workers, perm, tmpTorrent, tmpHave, crashed, ret, regs,
                   drops, ncmds>>

\* lines 471-473 / 484-485: the next entry of the map; a Seeding or a
\* non-Pending Torrent has bytesCompleted refreshed
SchedCompleted(ih) ==
    /\ ~crashed /\ sched.pc = "range"
    /\ ih \in Tracked \ sched.visited
    /\ ~Pending(At(ih))
    /\ heap' = [heap EXCEPT ![torrents[ih]].bytesCompleted = BytesCompleted(At(ih))]
    /\ sched' = [pc |-> "missing", visited |-> sched.visited \cup {ih},
                 obj |-> torrents[ih],
                 branch |-> IF Seeding(At(ih)) THEN "seeding" ELSE "progress"]
    /\ UNCHANGED <<waiting, refuses,
                   started, closeAll, mainLoopPc, halt, clientClosed,
                   newTorrent, removeTorrent, updateTorrent, mu, torrents,
                   workers, perm, tmpTorrent, tmpHave, crashed, ret, regs,
                   drops, ncmds>>

\* line 474: a Seeding Torrent has bytesMissing refreshed
SchedSeedingMissing ==
    /\ ~crashed /\ sched.pc = "missing" /\ sched.branch = "seeding"
    /\ sched' = [sched EXCEPT !.pc = "range", !.obj = 0, !.branch = ""]
    /\ heap' = [heap EXCEPT ![sched.obj].bytesMissing = BytesMissing(heap[sched.obj])]
    /\ UNCHANGED <<waiting, refuses,
                   started, closeAll, mainLoopPc, halt, clientClosed,
                   newTorrent, removeTorrent, updateTorrent, mu, torrents,
                   workers, perm, tmpTorrent, tmpHave, crashed, ret, regs,
                   drops, ncmds>>

\* a rule that looks at the limitation before it looks at bytesMissing
DecideLimitFirst(t) ==
    IF ~Less(Int64(t.bytesCompleted), t.bytesLimitation) THEN Pause(t)
    ELSE IF t.bytesMissing = 0 THEN Seed(t)
    ELSE Run(t)

\* lines 487-497, on a Torrent whose counters were refreshed
Decide(t) ==
    IF t.bytesMissing = 0 THEN Seed(t)
    ELSE IF ~Less(Int64(t.bytesCompleted), t.bytesLimitation) THEN Pause(t)
    ELSE IF Less(Int64(t.bytesCompleted), t.bytesLimitation) THEN Run(t)
    ELSE t

\* lines 486-497: bytesMissing refreshed, then the link and Seed, or Pause, or Run
SchedProgress ==
    /\ ~crashed /\ sched.pc = "missing" /\ sched.branch = "progress"
    /\ LET t == [heap[sched.obj] EXCEPT !.bytesMissing = BytesMissing(heap[sched.obj])]
       IN  /\ sched' = [sched EXCEPT !.pc = "range", !.obj = 0, !.branch = ""]
           /\ heap' = [heap EXCEPT ![sched.obj] = Decide(t)]
           /\ perm' = IF t.bytesMissing = 0
                      THEN [perm EXCEPT ![t.ih] =
                              Symlink(@, <<defaultTmpFilePath, t.ih>>)]
                      ELSE perm
    /\ UNCHANGED <<waiting, refuses,
                   started, closeAll, mainLoopPc, halt, clientClosed,
                   newTorrent, removeTorrent, updateTorrent, mu, torrents,
                   workers, tmpTorrent, tmpHave, crashed, ret, regs, drops,
                   ncmds>>

\* line 508: go t.GetTorrent() for a Pending Torrent (the model starts no
\* further waiter once MaxWaiters of them wait on the Torrent)
SchedPending(ih) ==
    /\ ~crashed /\ sched.pc = "range"
    /\ ih \in Tracked \ sched.visited
    /\ Pending(At(ih))
    /\ workers' = IF NumWaiters(torrents[ih]) < MaxWaiters
                  THEN Spawn(Worker("GetTorrent", "wait", ih, <<>>, NoReq, torrents[ih]))
                  ELSE workers
    /\ sched' = [sched EXCEPT !.visited = @ \cup {ih}]
    /\ UNCHANGED <<waiting, refuses,
                   started, closeAll, mainLoopPc, halt, clientClosed,
                   newTorrent, removeTorrent, updateTorrent, mu, torrents, heap,
                   perm, tmpTorrent, tmpHave, crashed, ret, regs, drops, ncmds>>

\* lines 520-524: the range is over; sleep and loop
SchedSleep ==
    /\ ~crashed /\ sched.pc = "range"
    /\ Tracked \subseteq sched.visited
    /\ sched' = [sched EXCEPT !.pc = "top", !.visited = {}]
    /\ UNCHANGED <<waiting, refuses,
                   started, closeAll, mainLoopPc, halt, clientClosed,
                   newTorrent, removeTorrent, updateTorrent, mu, torrents, heap,
                   workers, perm, tmpTorrent, tmpHave, crashed, ret, regs,
                   drops, ncmds>>

-----------------------------------------------------------------------------
(* tm.torrents is a plain Go map.  Its insert (lines 257, 281, 330) is made   *)
(* under tm.mu; its delete (line 368) and the lookup of line 362 are made by  *)
(* DropMagnet without it, and the range of line 471 by the scheduler without  *)
(* it.  The runtime ends the process with a fatal error when a map access     *)
(* meets a write in progress.                                                 *)

\* w is about to write tm.torrents
MapWrite(w) ==
    \/ w.kind \in {"AddTorrent", "AddMagnet"} /\ w.pc = "insert"
    \/ w.kind = "DropMagnet" /\ w.pc = "drop"

\* w is about to read or write tm.torrents
MapAccess(w) ==
    \/ MapWrite(w)
    \/ w.kind \in {"AddTorrent", "AddMagnet"} /\ w.pc \in {"run", "spawn"}
    \/ w.kind = "DropMagnet" /\ w.pc = "lookup"
    \/ w.kind \in {"AddTorrent", "AddMagnet", "UpdateMagnet"} /\ w.pc = "lock" /\ CanLock

\* a write of the map and another access of it can overlap
MapRace ==
    \E w \in Live :
        /\ MapWrite(w)
        /\ \/ sched.pc = "range"
           \/ CopiesIn(w, workers) > 1
           \/ \E v \in Live \ {w} : MapAccess(v)

\* "fatal error: concurrent map read and map write", "concurrent map writes",
\* "concurrent map iteration and map write"
MapRaceFatal ==
    /\ ~crashed /\ MapRace
    /\ crashed' = TRUE
    /\ UNCHANGED <<waiting, refuses,
                   started, closeAll, mainLoopPc, halt, clientClosed,
                   newTorrent, removeTorrent, updateTorrent, mu, torrents, heap,
                   workers, sched, perm, tmpTorrent, tmpHave, ret, regs, drops,
                   ncmds>>

-----------------------------------------------------------------------------
(* The swarm client, as far as the manager observes it *)

\* the metadata of a magnet arrives: GotInfo is closed
SwarmGotInfo(n) ==
    /\ ~crashed /\ ~clientClosed
    /\ ~heap[n].Torrent.info /\ ~heap[n].Torrent.closed
    /\ heap' = [heap EXCEPT ![n].Torrent.info = TRUE]
    /\ UNCHANGED <<waiting, refuses,
                   started, closeAll, mainLoopPc, halt, clientClosed,
                   newTorrent, removeTorrent, updateTorrent, mu, torrents,
                   workers, sched, perm, tmpTorrent, tmpHave, crashed, ret,
                   regs, drops, ncmds>>

\* storage of the handle lies under the temporary directory of its hash
StoresInTmp(t) ==
    \/ t.Torrent.storage = TmpDir(t.ih)
    \/ t.Torrent.storage = ExistDir(t.ih) /\ ResolveExistDir(t.ih) = TmpDir(t.ih)

\* pieces of the handle's storage that are on disk already
OnDisk(t) == IF StoresInTmp(t) THEN tmpHave[t.ih] ELSE InfoNumPieces

\* One more piece of an open handle is complete: hashed from the data in its
\* storage, or downloaded after DownloadAll and written to the storage.
SwarmPiece(n) ==
    /\ ~crashed /\ ~clientClosed
    /\ heap[n].Torrent.info /\ ~heap[n].Torrent.closed
    /\ heap[n].Torrent.have < InfoNumPieces
    /\ heap[n].Torrent.wanted \/ heap[n].Torrent.have < OnDisk(heap[n])
    /\ heap' = [heap EXCEPT ![n].Torrent.have = @ + 1]
    /\ tmpHave' = IF StoresInTmp(heap[n]) /\ tmpHave[heap[n].ih] < heap[n].Torrent.have + 1
                  THEN [tmpHave EXCEPT ![heap[n].ih] = heap[n].Torrent.have + 1]
                  ELSE tmpHave
    /\ UNCHANGED <<waiting, refuses,
                   started, closeAll, mainLoopPc, halt, clientClosed,
                   newTorrent, removeTorrent, updateTorrent, mu, torrents,
                   workers, sched, perm, tmpTorrent, crashed, ret, regs, drops,
                   ncmds>>

-----------------------------------------------------------------------------
(* The system *)

AddSteps ==
    \/ \E w \in Live : AddTorrentLoad(w)
    \/ \E w \in Live : AddTorrentLock(w)
    \/ \E w \in Live : AddTorrentInsert(w)
    \/ \E w \in Live : AddTorrentRun(w)
    \/ \E w \in Live : AddMagnetStat(w)
    \/ \E w \in Live : AddMagnetLock(w)
    \/ \E w \in Live : AddMagnetInsert(w)
    \/ \E w \in Live : AddMagnetSpawn(w)

UpdateSteps ==
    \/ \E w \in Live : UpdateMagnetLock(w)
    \/ \E w \in Live : UpdateMagnetWrite(w)

DropSteps ==
    \/ \E w \in Live : DropMagnetLookup(w)
    \/ \E w \in Live : DropMagnetDelete(w)

WaitSteps ==
    \/ \E w \in Live : GetTorrentWait(w)
    \/ \E w \in Live : GetTorrentWrite(w)
    \/ \E w \in Live : GetTorrentWriteFails(w)

SchedSteps ==
    \/ SchedTop
    \/ \E ih \in Hashes : SchedCompleted(ih)
    \/ SchedSeedingMissing
    \/ SchedProgress
    \/ \E ih \in Hashes : SchedPending(ih)
    \/ SchedSleep

SwarmSteps ==
    \/ \E n \in DOMAIN heap : SwarmGotInfo(n)
    \/ \E n \in DOMAIN heap : SwarmPiece(n)

\* The whole manager with its caller.
Next ==
    \/ Start
    \/ Close
    \/ MayAdd /\ \E input \in AddInputs : NewTorrent(input)
    \/ MayRemove /\ \E input \in RemoveInputs : RemoveTorrent(input)
    \/ MayUpdate /\ \E ih \in Hashes, r \in Requests :
          UpdateTorrent([InfoHash |-> ih, BytesRequested |-> r])
    \/ \E input \in RemoveInputs : RemoveTorrentWaits(input)
    \/ \E c \in waiting : RemoveTorrentResumes(c)
    \/ MainLoopNew
    \/ MainLoopRemove
    \/ MainLoopUpdate
    \/ MainLoopClose
    \/ AddSteps
    \/ UpdateSteps
    \/ DropSteps
    \/ WaitSteps
    \/ SchedSteps
    \/ MapRaceFatal
    \/ SwarmSteps

Spec == Init /\ [][Next]_vars

\* A caller that only adds.
NextAdd ==
    \/ Start
    \/ MayAdd /\ \E input \in AddInputs : NewTorrent(input)
    \/ MainLoopNew
    \/ AddSteps
    \/ WaitSteps
    \/ SchedSteps
    \/ MapRaceFatal
    \/ SwarmSteps

SpecAdd == Init /\ [][NextAdd]_vars

\* The same caller, with a swarm client that may fail a registration.
SpecFail == InitRefuses /\ [][NextAdd]_vars

\* A caller that adds and updates budgets, on an empty data directory.
NextBudget ==
    \/ Start
    \/ MayAdd /\ \E input \in GoodAddInputs : NewTorrent(input)
    \/ MayUpdate /\ \E ih \in Hashes, r \in Requests :
          UpdateTorrent([InfoHash |-> ih, BytesRequested |-> r])
    \/ MainLoopNew
    \/ MainLoopUpdate
    \/ AddSteps
    \/ UpdateSteps
    \/ WaitSteps
    \/ SchedSteps
    \/ MapRaceFatal
    \/ SwarmSteps

SpecBudget == InitEmpty /\ [][NextBudget]_vars

\* the one amount the caller of NextLock asks for
LockRequest == Int64(1000 * 1024)

\* A caller that adds and updates budgets, always with the same amount, on an
\* empty data directory.
NextLock ==
    \/ Start
    \/ MayAdd /\ \E input \in GoodAddInputs : NewTorrent(input)
    \/ MayUpdate /\ \E ih \in Hashes :
          UpdateTorrent([InfoHash |-> ih, BytesRequested |-> LockRequest])
    \/ MainLoopNew
    \/ MainLoopUpdate
    \/ AddSteps
    \/ UpdateSteps
    \/ WaitSteps
    \/ SchedSteps
    \/ MapRaceFatal
    \/ SwarmSteps

SpecLock == InitEmpty /\ [][NextLock]_vars

\* A goroutine that can run does run: the add and update goroutines are not
\* left standing for ever.
FairLock == SpecLock /\ WF_vars(AddSteps \/ UpdateSteps)

\* A caller that adds and removes, on an empty data directory.
NextRemove ==
    \/ Start
    \/ MayAdd /\ \E input \in GoodAddInputs : NewTorrent(input)
    \/ MayRemove /\ \E input \in RemoveInputs : RemoveTorrent(input)
    \/ MainLoopNew
    \/ MainLoopRemove
    \/ AddSteps
    \/ DropSteps
    \/ WaitSteps
    \/ SchedSteps
    \/ MapRaceFatal
    \/ SwarmSteps

SpecRemove == InitEmpty /\ [][NextRemove]_vars

\* the one identifier the caller of NextSubmit removes
SubmitInput == Magnet(CHOOSE ih \in Hashes : TRUE)

\* the caller of NextSubmit submits one command more than the channel buffers
MaySubmit == ncmds.remove <= removeTorrentChanBuffer

\* A caller that submits removals to a manager it may not have started, or
\* may have closed; nothing is tracked.
NextSubmit ==
    \/ Start
    \/ Close
    \/ MaySubmit /\ RemoveTorrent(SubmitInput)
    \/ MaySubmit /\ RemoveTorrentWaits(SubmitInput)
    \/ \E c \in waiting : RemoveTorrentResumes(c)
    \/ MainLoopRemove
    \/ MainLoopClose
    \/ \E w \in Live : DropMagnetLookup(w)

SpecSubmit == InitEmpty /\ [][NextSubmit]_vars

\* A caller that adds and then closes, on an empty data directory.
NextStop ==
    \/ Start
    \/ Close
    \/ MayAdd /\ \E input \in GoodAddInputs : NewTorrent(input)
    \/ MainLoopNew
    \/ MainLoopClose
    \/ AddSteps
    \/ WaitSteps
    \/ SchedSteps
    \/ MapRaceFatal
    \/ SwarmSteps

SpecStop == InitEmpty /\ [][NextStop]_vars

\* mainLoop's select takes a ready case at random, so the closeAll case is
\* not passed over for ever; the scheduler is a goroutine of its own whose
\* loop body never waits for another goroutine.
FairStop == SpecStop /\ WF_vars(MainLoopClose) /\ WF_vars(SchedSteps)

-----------------------------------------------------------------------------
(* Properties *)

AddWorkers == { w \in Live : w.kind \in {"AddTorrent", "AddMagnet"} }
\* every add submitted was dispatched and its worker returned
AddsDone == started /\ newTorrent = <<>> /\ AddWorkers = {}
ObjectsOf(ih) == { n \in DOMAIN heap : heap[n].ih = ih }

\* C1 (dedup): while no remove has acted on a hash, at most one swarm
\* registration and one Torrent are ever made for it, however many add workers
\* run for it and however they interleave; and once all add workers have
\* returned, a hash that was added at least once under a readable identifier
\* is in the map, with exactly one Torrent and exactly one registration.
C1_Dedup ==
    \A ih \in Hashes :
        drops[ih] = 0 =>
            /\ regs[ih] <= 1
            /\ Cardinality(ObjectsOf(ih)) <= 1
            /\ (AddsDone /\ ~crashed /\ ncmds.asked[ih] >= 1) =>
                   /\ ih \in Tracked
                   /\ Cardinality(ObjectsOf(ih)) = 1
                   /\ regs[ih] = 1

\* two adds of one hash are in flight together: one has inserted and still
\* holds tm.mu, the other waits for it
C1_Witness ==
    \E w1 \in Live, w2 \in Live :
        /\ w1.pc \in {"run", "spawn"}
        /\ w2.kind \in {"AddTorrent", "AddMagnet"} /\ w2.pc = "lock"
        /\ w2.ih = w1.ih
        /\ regs[w1.ih] = 1
        /\ ncmds.asked[w1.ih] = 2

\* the step in which the UpdateMagnet call of worker w runs on a tracked hash
UpdateStep(w) ==
    /\ w.kind = "UpdateMagnet" /\ w.pc = "write" /\ w.ih \in Tracked
    /\ workers' = Finish(w)

\* v is r x 1.25 as an integer: the product with its fraction dropped
IsTimes125(v, r) ==
    /\ r[1] = 0 /\ v[1] = 0
    /\ 4 * v[2] <= 5 * r[2] /\ 5 * r[2] < 4 * v[2] + 4

\* C2 (budget monotonicity): in every step, the bytesLimitation of every
\* Torrent does not decrease and stays at or above the default floor; a step
\* that is not an updateBudget call on the item leaves it as it is; and an
\* updateBudget(id, r) call sets it to r x 1.25 when r is greater than the
\* current bytesLimitation and leaves it unchanged otherwise.
C2_BudgetMonotone ==
    [][ \A n \in DOMAIN heap :
          LET old == heap[n].bytesLimitation
              new == heap'[n].bytesLimitation
              upd == { w \in Live : UpdateStep(w) /\ torrents[w.ih] = n }
          IN  /\ ~Less(new, old)
              /\ ~Less(new, Int64(defaultBytesLimitation))
              /\ upd = {} => new = old
              /\ \A w \in upd :
                     IF Less(old, w.req) THEN IsTimes125(new, w.req)
                                         ELSE new = old ]_vars

\* no updateBudget call has run on t: its bytesRequested is the one of line 259
Fresh(t) == t.bytesRequested = Int64(defaultBytesLimitation)

\* the second call of the scenario: the last request was 100 KiB, the next
\* is 1000 KiB, above the limitation, and the limitation becomes 1250 KiB
ScenarioSecondCall(w, n) ==
    (/\ heap[n].bytesRequested = Int64(100 * 1024)
     /\ Less(heap[n].bytesLimitation, Int64(1000 * 1024))
     /\ w.req = Int64(1000 * 1024))
    => heap'[n].bytesLimitation = Int64(1250 * 1024)

\* C3 as the spec has it: updateBudget(id, 100 KiB) on a freshly added item
\* leaves bytesLimitation at 512 KiB, and a following updateBudget(id, 1000 KiB)
\* raises it to exactly 1250 KiB.
C3_Original ==
    [][ \A w \in Live : UpdateStep(w) =>
          LET n == torrents[w.ih] IN
          /\ (Fresh(heap[n]) /\ w.req = Int64(100 * 1024))
                 => heap'[n].bytesLimitation = Int64(512 * 1024)
          /\ ScenarioSecondCall(w, n) ]_vars

\* C3 (budget scenario): a freshly added item has bytesLimitation 640 KiB
\* (the 512 KiB default expanded by 1.25); updateBudget(id, 100 KiB) on it
\* leaves bytesLimitation at 640 KiB, and a following updateBudget(id, 1000 KiB)
\* raises it to exactly 1250 KiB.
C3_Scenario ==
    [][ /\ \A n \in DOMAIN heap' :
              Fresh(heap'[n]) => heap'[n].bytesLimitation = Int64(640 * 1024)
        /\ \A w \in Live : UpdateStep(w) =>
              LET n == torrents[w.ih] IN
              /\ (Fresh(heap[n]) /\ w.req = Int64(100 * 1024))
                     => heap'[n].bytesLimitation = Int64(640 * 1024)
              /\ ScenarioSecondCall(w, n) ]_vars

\* the first call of the scenario has run on a tracked item and the second
\* one is about to
C3_Witness ==
    \E ih \in Tracked, w \in Live :
        /\ At(ih).bytesRequested = Int64(100 * 1024)
        /\ At(ih).bytesLimitation = Int64(640 * 1024)
        /\ w.kind = "UpdateMagnet" /\ w.ih = ih /\ w.req = Int64(1000 * 1024)

\* C4 (Seeding is terminal): in every step, a tracked Torrent whose status is
\* Seeding and which is still tracked after the step still has status Seeding.
C4_SeedingTerminal ==
    [][ \A ih \in Tracked :
          (/\ Seeding(At(ih))
           /\ ih \in DOMAIN torrents' /\ torrents'[ih] = torrents[ih])
          => heap'[torrents[ih]].status = torrentSeeding ]_vars

\* the step in which the AddTorrent call of worker w returns, having inserted
AddTorrentReturns(w) ==
    /\ w.kind = "AddTorrent" /\ w.pc = "run" /\ w.ih \in Tracked
    /\ workers' = Finish(w)

\* a GetTorrent goroutine ends in this step
WaitTaskEnds == \E w \in Live : w.kind = "GetTorrent" /\ workers' = Finish(w)

\* the status changes of the table of transitions, and the run that a
\* descriptor add invokes on the Torrent it has just inserted
TableTransition(t, u) ==
    \/ u.status = t.status
    \/ Pending(t) /\ Paused(u) /\ t.Torrent.info
    \/ Pending(t) /\ Running(u) /\ \E w \in Live : AddTorrentReturns(w) /\ w.ih = t.ih
    \/ Paused(t) /\ Running(u)
    \/ Running(t) /\ Paused(u) /\ ~WaitTaskEnds
    \/ Running(t) /\ Seeding(u)
    \/ Paused(t) /\ Seeding(u)

\* C5 (state-machine conformance): a Torrent inserted in a step has status
\* Pending, and in every step the status of every tracked Torrent either
\* stays or changes along one of the transitions of the table: Pending to
\* Paused with the metadata known, Paused to Running, Running to Paused not by
\* a metadata-wait task, Running to Seeding, Paused to Seeding.  The run of a
\* descriptor add on its new Torrent (Pending to Running) is let through
\* here, so that what is left to violate is a change no part of the spec has.
C5_Conformance ==
    [][ /\ \A n \in DOMAIN heap' \ DOMAIN heap : Pending(heap'[n])
        /\ \A ih \in Tracked :
               TableTransition(At(ih), heap'[torrents[ih]]) ]_vars

\* C6 (reuse on verified data): when a descriptor add returns for which the
\* permanent directory exists and holds exactly the descriptor's content, the
\* Torrent is stored in the permanent directory and its status is Seeding.
C6_ReuseSeeds ==
    [][ \A w \in Live :
          (/\ AddTorrentReturns(w)
           /\ ExistDirExists(w.ih)
           /\ ExistDisk(w.ih) = DiskOf(GoodFiles))
          => /\ heap'[torrents[w.ih]].Torrent.storage = ExistDir(w.ih)
             /\ heap'[torrents[w.ih]].status = torrentSeeding ]_vars

\* the step in which the AddTorrent call of worker w inserts its Torrent
AddTorrentInserts(w) ==
    /\ w.kind = "AddTorrent" /\ w.pc = "insert"
    /\ workers' = Become(w, [w EXCEPT !.pc = "run"])

\* C7 (fallback on failed verification): a descriptor add that reaches the
\* insertion always inserts a Torrent for its hash, stored either in the
\* permanent or in the temporary directory of the hash; it is the permanent
\* directory if and only if that directory exists and every file of the
\* descriptor is there with exactly the descriptor's bytes (so any length or
\* piece difference gives the temporary directory).
C7_Fallback ==
    [][ \A w \in Live : AddTorrentInserts(w) =>
          LET n == Len(heap')
              storage == heap'[n].Torrent.storage
          IN  /\ n = Len(heap) + 1
              /\ w.ih \in DOMAIN torrents' /\ torrents'[w.ih] = n
              /\ heap'[n].ih = w.ih
              /\ storage \in {ExistDir(w.ih), TmpDir(w.ih)}
              /\ storage = ExistDir(w.ih)
                     <=> (ExistDirExists(w.ih) /\ ExistDisk(w.ih) = DiskOf(GoodFiles)) ]_vars

\* a descriptor add found a permanent directory whose content differs and
\* inserted its Torrent on the temporary directory
C7_Witness ==
    \E w \in Live :
        /\ w.kind = "AddTorrent" /\ w.pc = "run" /\ w.ih \in Tracked
        /\ perm[w.ih].kind = "dir" /\ perm[w.ih].disk # DiskOf(GoodFiles)
        /\ At(w.ih).Torrent.storage = TmpDir(w.ih)

\* C8 (promotion): in every step that turns a Torrent's status to Seeding,
\* the permanent path of its hash is, after the step, a link that resolves to
\* the temporary path of that hash.
C8_Promotion ==
    [][ \A n \in DOMAIN heap :
          (~Seeding(heap[n]) /\ Seeding(heap'[n]))
          => /\ perm'[heap[n].ih].kind = "link"
             /\ Join(DataDir, perm'[heap[n].ih].target) = TmpDir(heap[n].ih) ]_vars

\* the step in which the DropMagnet call of worker w looks its hash up
DropLooksUp(w) ==
    /\ w.kind = "DropMagnet" /\ w.pc = "lookup"
    /\ IF w.ih \in Tracked
       THEN \/ workers' = Finish(w)
            \/ workers' = Become(w, [w EXCEPT !.pc = "drop", !.obj = torrents[w.ih]])
       ELSE workers' = Finish(w)

\* the step in which the DropMagnet call of worker w, having found its hash,
\* drops, deletes and returns
DropReturns(w) ==
    /\ w.kind = "DropMagnet" /\ w.pc = "drop"
    /\ workers' = Finish(w)

\* C9 (removal): a remove call that finds its hash tracked goes on to drop
\* the Torrent it found from the swarm client, delete the hash from the map
\* and return true; a remove call that finds its hash untracked (as a second
\* removal does when no add came in between) changes neither the map nor any
\* Torrent and returns false.
C9_Removal ==
    [][ \A w \in Live :
          /\ (DropLooksUp(w) /\ w.ih \in Tracked) =>
                 /\ workers' = Become(w, [w EXCEPT !.pc = "drop", !.obj = torrents[w.ih]])
                 /\ ret' = ret
          /\ (DropLooksUp(w) /\ w.ih \notin Tracked) =>
                 /\ workers' = Finish(w)
                 /\ torrents' = torrents /\ heap' = heap /\ drops' = drops
                 /\ ret' = [op |-> "DropMagnet", ih |-> w.ih, val |-> FALSE]
          /\ DropReturns(w) =>
                 /\ w.ih \notin DOMAIN torrents'
                 /\ heap'[w.obj].Torrent.closed
                 /\ drops'[w.ih] = drops[w.ih] + 1
                 /\ ret' = [op |-> "DropMagnet", ih |-> w.ih, val |-> TRUE] ]_vars

\* a hash added once was removed, and the next removal of it returned false
C9_Witness ==
    \E ih \in Hashes :
        /\ regs[ih] = 1 /\ drops[ih] = 1 /\ ih \notin Tracked
        /\ ret = [op |-> "DropMagnet", ih |-> ih, val |-> FALSE]

\* the step in which mainLoop takes a command from removeTorrent
RemoveDispatched == removeTorrent # <<>> /\ removeTorrent' = Tail(removeTorrent)

\* C10 (remove by either identifier form): when mainLoop dispatches a remove
\* command whose identifier, a magnet URI or a descriptor path, names a
\* tracked hash, it starts the worker that drops that hash and deletes it
\* from the map.
C10_RemoveAnyForm ==
    [][ (RemoveDispatched /\ HashOfInput(Head(removeTorrent)) \in Tracked)
        => workers' = Spawn(Worker("DropMagnet", "lookup",
                                   HashOfInput(Head(removeTorrent)), <<>>, NoReq, 0)) ]_vars

-----------------------------------------------------------------------------
(* C11: NewTorrent, RemoveTorrent and UpdateTorrent never block: each call    *)
(* returns at once, whatever the number of commands queued and whether or not *)
(* mainLoop is draining the channels.  No call is ever left waiting in its    *)
(* send.  The sends of lines 137, 142 and 147 are plain channel sends: with   *)
(* the buffer full and no receiver the call waits.                            *)
C11_NonBlocking == waiting = {}
-----------------------------------------------------------------------------
(* C12: after Close on a started manager the scheduler ends; once halt is set *)
(* it begins no new pass, so no item's status or counters change after its    *)
(* last pass.                                                                 *)

\* the status and the counters of the Torrent objects stay as they are
ItemsQuiet ==
    \A n \in DOMAIN heap :
        /\ heap'[n].status = heap[n].status
        /\ heap'[n].bytesCompleted = heap[n].bytesCompleted
        /\ heap'[n].bytesMissing = heap[n].bytesMissing

\* the part that holds, under FairStop: Close on a started manager leads to
\* the exit of listenTorrentProgress (or the process is dead)
C12_SchedulerExits ==
    (started /\ closeAll = "closed") ~> (sched.pc = "exited" \/ crashed)

\* the part that holds: with halt set the top of the loop starts no pass
C12_NoNewPass ==
    [][halt /\ sched.pc = "top" => sched'.pc \in {"top", "exited"}]_vars

\* C12: once listenTorrentProgress has returned, no item's status or counters
\* change.  Violated: a GetTorrent goroutine past its status test (line 57)
\* and an AddTorrent dispatched before the shutdown still write status.
C12_QuietAfterExit == [][sched.pc = "exited" => ItemsQuiet]_vars
-----------------------------------------------------------------------------
(* C13: once mainLoop has handled closeAll (halt set, client closed), no item *)
(* is registered with the swarm client and no Torrent is inserted into the    *)
(* map, not even by an add goroutine started before.  Violated: AddTorrent    *)
(* and AddMagnet never look at halt or closeAll.                              *)
C13_NoRegistrationAfterStop ==
    [][clientClosed => /\ regs' = regs
                       /\ Len(heap') = Len(heap)
                       /\ DOMAIN torrents' \subseteq DOMAIN torrents]_vars
-----------------------------------------------------------------------------
(* C14: a failed registration with the swarm client aborts the add: no        *)
(* Torrent for the hash is inserted into the map and no GetTorrent goroutine  *)
(* is started for it.                                                         *)

\* the add goroutine w passes its AddTorrentSpec call, and the call fails
RegistrationFails(w) ==
    /\ w.kind \in {"AddTorrent", "AddMagnet"} /\ w.pc = "insert"
    /\ workers' = Become(w, [w EXCEPT !.pc = IF w.kind = "AddTorrent" THEN "run"
                                              ELSE "spawn"])
    /\ regs' = regs

\* C14: the step of an add whose registration fails leaves the map and the
\* Torrent objects as they are.  Violated: the error of AddTorrentSpec is
\* dropped at lines 253 and 277 and never read at line 329, and the Torrent
\* is inserted around whatever handle came back.
C14_FailureAborts ==
    [][\A w \in Live : RegistrationFails(w) => torrents' = torrents /\ heap' = heap]_vars
-----------------------------------------------------------------------------
(* C15: when the info of a Pending Torrent has arrived but creating or        *)
(* writing TmpDataDir/<ih>/torrent fails, the Torrent is not advanced to      *)
(* Paused: GetTorrent sets Paused only with the descriptor persisted.         *)

\* the GetTorrent goroutine w takes its Pending Torrent to Paused (line 70)
GetTorrentPauses(w) ==
    /\ w.kind = "GetTorrent" /\ w.pc = "write"
    /\ workers' = Finish(w)
    /\ heap[w.obj].status = torrentPending
    /\ heap'[w.obj].status = torrentPaused

\* C15: GetTorrent takes a Torrent from Pending to Paused only with the
\* descriptor file written.  Violated: the error of os.Create is dropped
\* (line 63), the error of Write is only logged (lines 65-67), and line 70
\* runs in every case.
C15_PersistedBeforePaused ==
    [][\A w \in Live : GetTorrentPauses(w) => tmpTorrent'[w.ih] = "written"]_vars
-----------------------------------------------------------------------------
(* C16: an add whose descriptor file does not exist or cannot be read or      *)
(* parsed is aborted with the map, the registrations and every Torrent        *)
(* unchanged, and the failure is handed to the caller of the add.             *)

\* the AddTorrent goroutine w gives up at line 207 or line 212
LoadAborts(w) ==
    /\ w.kind = "AddTorrent" /\ w.pc = "load"
    /\ FileState(w.path) # "written"
    /\ workers' = Finish(w)

\* the failure of an add, as its caller would be handed it
AddFailed == [op |-> "NewTorrent", ih |-> "", val |-> FALSE]

\* the part that holds: the abort changes nothing
C16_AbortChangesNothing ==
    [][\A w \in Live : LoadAborts(w) =>
          torrents' = torrents /\ regs' = regs /\ heap' = heap]_vars

\* C16: the abort of an add on an unreadable descriptor changes nothing and
\* its failure reaches the caller.  Violated: NewTorrent has returned nil
\* before AddTorrent runs, and AddTorrent returns no value (lines 207, 212).
C16_AbortSurfaced ==
    [][\A w \in Live : LoadAborts(w) =>
          /\ torrents' = torrents /\ regs' = regs /\ heap' = heap
          /\ ret' = AddFailed]_vars
-----------------------------------------------------------------------------
(* C17: the add of an identifier whose hash is tracked already is a no-op: it *)
(* leaves the Torrent of the hash and all its fields as they are, makes no    *)
(* registration with the swarm client, and is no error.                       *)

\* the goroutine w takes a step
Moves(w) == CopiesIn(w, workers') < CopiesIn(w, workers)

\* C17: what an add does before it holds tm.mu (Stat, LoadFromFile) touches
\* neither the map, nor a Torrent, nor the client; and under tm.mu an add that
\* finds its hash tracked returns at once, with the map, every Torrent and the
\* registrations as they were, the lock released and the process alive.
C17_DuplicateNoOp ==
    [][\A w \in Live : (w.kind \in {"AddTorrent", "AddMagnet"} /\ Moves(w)) =>
          /\ w.pc \in {"stat", "load"} =>
                 heap' = heap /\ torrents' = torrents /\ regs' = regs
          /\ (w.pc = "lock" /\ w.ih \in Tracked) =>
                 /\ workers' = Finish(w)
                 /\ heap' = heap /\ torrents' = torrents /\ regs' = regs
                 /\ ~mu' /\ ~crashed']_vars

\* two adds of one hash are over: the second found the hash tracked, one
\* registration was made and the Torrent of the first add has gone its way
C17_Witness ==
    \E ih \in Tracked :
        /\ AddsDone /\ ~crashed
        /\ ncmds.asked[ih] = 2
        /\ regs[ih] = 1
        /\ Cardinality(ObjectsOf(ih)) = 1
        /\ At(ih).status # torrentPending
-----------------------------------------------------------------------------
(* C18: commands submitted on one channel take effect in the order of their   *)
(* submission; two updates (ih, r1) then (ih, r2) leave bytesRequested and    *)
(* bytesLimitation as r1 applied and then r2 applied would.                   *)

\* an UpdateMagnet call for the hash of w, with another request, that was
\* taken from tm.updateTorrent before w and has not run yet
EarlierUpdatePending(w) ==
    \E v \in Live :
        /\ v.kind = "UpdateMagnet" /\ v.pc = "lock"
        /\ v.ih = w.ih /\ v.seq < w.seq /\ v.req # w.req

\* C18: an update writes the fields of its Torrent only when every update of
\* the hash submitted before it has run.  Violated: mainLoop starts one
\* goroutine per command (line 448) and the goroutines meet at tm.mu in any
\* order, so the request submitted first can be the one written last.
C18_UpdatesInOrder ==
    [][\A w \in Live : UpdateStep(w) => ~EarlierUpdatePending(w)]_vars
-----------------------------------------------------------------------------
(* C19: every insert into and every delete from tm.torrents is made with      *)
(* tm.mu held, so an insert, a delete and the scheduler's range over the map  *)
(* are never in progress together.                                            *)

\* the goroutine w is between tm.mu.Lock() and the deferred Unlock
HoldsLock(w) ==
    \/ w.kind \in {"AddTorrent", "AddMagnet"} /\ w.pc \in {"insert", "run", "spawn"}
    \/ w.kind = "UpdateMagnet" /\ w.pc = "write"

\* listenTorrentProgress is inside its range over tm.torrents (lines 471-519)
Ranging == sched.pc \in {"range", "missing"}

\* C19: the map changes only by the step of a goroutine that holds tm.mu, and
\* not while the scheduler ranges over it.  Violated: DropMagnet deletes
\* without tm.mu (lines 360-372), and the range of line 471 takes no lock, so
\* it overlaps with the inserts as well.
C19_MapExclusion ==
    [][torrents' # torrents =>
          /\ \E w \in Live : Moves(w) /\ HoldsLock(w)
          /\ ~Ranging]_vars

\* the part about the lock alone, violated by the delete of line 368
C19_WritesUnderLock ==
    [][torrents' # torrents => \E w \in Live : Moves(w) /\ HoldsLock(w)]_vars
-----------------------------------------------------------------------------
(* C20: the write of bytesRequested / bytesLimitation by UpdateMagnet and the *)
(* scheduler's read of bytesLimitation of the same Torrent are never in       *)
(* progress together, and the scheduler is the only writer of bytesCompleted  *)
(* and bytesMissing.                                                          *)

\* UpdateMagnet is about to write the budget fields of the Torrent of which
\* listenTorrentProgress is about to read bytesLimitation (lines 492, 494)
BudgetRace ==
    /\ sched.pc = "missing" /\ sched.branch = "progress"
    /\ \E w \in Live : w.kind = "UpdateMagnet" /\ w.pc = "write" /\ w.obj = sched.obj

\* the counters of a Torrent change only by a step of listenTorrentProgress
CountersByScheduler ==
    \A n \in DOMAIN heap :
        (\/ heap'[n].bytesCompleted # heap[n].bytesCompleted
         \/ heap'[n].bytesMissing # heap[n].bytesMissing) => sched' # sched

\* the part that holds: bytesCompleted and bytesMissing have one writer
C20_SchedulerSoleWriter == [][CountersByScheduler]_vars

\* C20: no update writes the budget of a Torrent while the scheduler reads
\* it, and only the scheduler writes the counters.  Violated in its first
\* half: UpdateMagnet writes under tm.mu (lines 348-356), and
\* listenTorrentProgress reads t.bytesLimitation with no lock (lines 492-494).
C20_BudgetSynchronized == []~BudgetRace /\ [][CountersByScheduler]_vars
-----------------------------------------------------------------------------
(* C21: for every tracked Torrent whose info is known, bytesCompleted +       *)
(* bytesMissing is the total length of the content, in every reachable state: *)
(* right after the insert, and between the scheduler's two reads as well.     *)

\* the bytes of the content of a hash
TotalLength == InfoTotal * Unit

\* C21: bytesCompleted + bytesMissing = total length for every tracked Torrent
\* with its info.  Violated: the Torrent is made with both fields 0 (lines
\* 257-265, 281-289, 330-338) and keeps them until the scheduler's pass, and
\* the pass reads BytesCompleted and BytesMissing one after the other (lines
\* 485-486) with the download going on in between.
C21_CounterSum ==
    \A ih \in Tracked :
        At(ih).Torrent.info =>
            At(ih).bytesCompleted + At(ih).bytesMissing = TotalLength

\* the same, only for Torrents the scheduler has refreshed at least once and
\* is not in the middle of refreshing; violated by a piece that arrives
\* between the two reads
C21_CounterSumAfterPass ==
    \A ih \in Tracked :
        (/\ At(ih).Torrent.info
         /\ At(ih).bytesCompleted + At(ih).bytesMissing > 0
         /\ ~(sched.pc = "missing" /\ sched.obj = torrents[ih])) =>
            At(ih).bytesCompleted + At(ih).bytesMissing = TotalLength
-----------------------------------------------------------------------------
(* C22: in each pass, for every tracked Torrent that is neither Pending nor   *)
(* Seeding, the scheduler refreshes the counters and then does exactly one    *)
(* thing: with bytesMissing = 0 it links the content and seeds; else with     *)
(* bytesCompleted >= bytesLimitation it pauses; else it runs, which changes   *)
(* nothing on a Running Torrent.  It never seeds or pauses a Pending Torrent. *)

\* listenTorrentProgress takes the step of lines 486-497 on the Torrent it
\* has in hand
SchedDecides ==
    /\ sched.pc = "missing" /\ sched.branch = "progress"
    /\ sched' # sched

\* what the rule asks of that step, from Torrent t to Torrent u
RuleApplied(t, u) ==
    /\ t.status \in {torrentPaused, torrentRunning}
    /\ u.bytesCompleted = t.bytesCompleted
    /\ u.bytesMissing = BytesMissing(t)
    /\ u.bytesRequested = t.bytesRequested /\ u.bytesLimitation = t.bytesLimitation
    /\ IF u.bytesMissing = 0
       THEN /\ u.status = torrentSeeding
            /\ u.Torrent = [t.Torrent EXCEPT !.verified = TRUE, !.wanted = TRUE]
            /\ perm'[t.ih] = Symlink(perm[t.ih], <<defaultTmpFilePath, t.ih>>)
       ELSE /\ perm' = perm
            /\ IF ~Less(Int64(u.bytesCompleted), u.bytesLimitation)
               THEN /\ u.status = torrentPaused
                    /\ u.Torrent = IF t.status = torrentPaused THEN t.Torrent
                                   ELSE [t.Torrent EXCEPT !.closed = TRUE]
               ELSE /\ u.status = torrentRunning
                    /\ u.Torrent = IF t.status = torrentRunning THEN t.Torrent
                                   ELSE [t.Torrent EXCEPT !.wanted = TRUE]

\* C22: the deciding step of the scheduler follows the rule on the Torrent in
\* hand and leaves every other Torrent alone; the Torrent it takes in hand is
\* not Pending, has bytesCompleted refreshed, and goes to the deciding step
\* exactly when it is not Seeding; and no step of the scheduler changes a
\* Pending Torrent.
C22_DecisionRule ==
    [][/\ SchedDecides =>
            /\ RuleApplied(heap[sched.obj], heap'[sched.obj])
            /\ \A n \in DOMAIN heap \ {sched.obj} : heap'[n] = heap[n]
       /\ (sched.pc = "range" /\ sched'.pc = "missing") =>
            /\ heap[sched'.obj].status # torrentPending
            /\ heap'[sched'.obj].bytesCompleted = BytesCompleted(heap[sched'.obj])
            /\ sched'.branch = "progress" <=> heap[sched'.obj].status # torrentSeeding
       /\ sched' # sched =>
            \A n \in DOMAIN heap : heap[n].status = torrentPending => heap'[n] = heap[n]]_vars

\* the scheduler has paused a Running Torrent that reached its limitation
\* with bytes still missing
C22_Witness ==
    \E ih \in Tracked :
        /\ sched.pc = "range" /\ ih \in sched.visited
        /\ At(ih).status = torrentPaused /\ At(ih).Torrent.closed
        /\ At(ih).bytesMissing > 0
        /\ ~Less(Int64(At(ih).bytesCompleted), At(ih).bytesLimitation)
-----------------------------------------------------------------------------
(* C23: starting GetTorrent again for a Pending Torrent is a no-op while one  *)
(* is waiting: at most one GetTorrent goroutine per Torrent is outstanding,   *)
(* however many passes go by before the info arrives, and the descriptor is   *)
(* written and Paused is set at most once.                                    *)

\* the GetTorrent goroutines of object n that are past the status test
Writers(n) == { w \in Waiters(n) : w.pc = "write" }

\* the second half alone: never two GetTorrent goroutines of one Torrent past
\* the test of line 57; violated as well
C23_OneWriter ==
    \A n \in DOMAIN heap :
        \A w \in Writers(n) : Writers(n) = {w} /\ CopiesIn(w, workers) = 1

\* C23: no Torrent has two GetTorrent goroutines at a time.  Violated:
\* AddMagnet starts one (line 342) and every pass of the scheduler starts one
\* more for every Pending Torrent (line 508); nothing records that one waits.
C23_OneWaiter == \A n \in DOMAIN heap : NumWaiters(n) <= 1
-----------------------------------------------------------------------------
(* C24: every change of a Torrent's status comes with the request to the      *)
(* swarm client that belongs to the status entered: DownloadAll for Running,  *)
(* Drop for Paused (from Running, and from Pending when the info arrives),    *)
(* VerifyData and DownloadAll for Seeding.                                    *)

\* the handle of u has had the request of the status u entered from t
EntryRequested(t, u) ==
    u.status # t.status =>
        /\ u.status = torrentRunning => u.Torrent.wanted
        /\ u.status = torrentPaused => u.Torrent.closed
        /\ u.status = torrentSeeding => u.Torrent.verified /\ u.Torrent.wanted

\* the part that holds: Run and Seed ask before they set the status, and the
\* scheduler's Pause drops
C24_RunSeedPauseRequests ==
    [][\A n \in DOMAIN heap :
          (heap'[n].status \in {torrentRunning, torrentSeeding} \/ sched' # sched)
              => EntryRequested(heap[n], heap'[n])]_vars

\* C24: no status is entered without its request.  Violated: GetTorrent sets
\* torrentPaused by plain assignment (line 70), with no Drop.
C24_EntryRequests ==
    [][\A n \in DOMAIN heap : EntryRequested(heap[n], heap'[n])]_vars
-----------------------------------------------------------------------------
(* C25: tm.mu is never held across the wait for the info (<-t.GotInfo()), an  *)
(* AddMagnet that hands over to AddTorrent does not hold tm.mu, and every add *)
(* or update that takes tm.mu releases it; so no add or update waits for ever *)
(* at tm.mu because of a Pending Torrent, and there is no deadlock on tm.mu.  *)

\* the goroutines between tm.mu.Lock() and the deferred Unlock
LockHolders == { w \in Live : HoldsLock(w) }

\* the add and update goroutines that wait in tm.mu.Lock()
LockWaiters ==
    { w \in Live : w.kind \in {"AddTorrent", "AddMagnet", "UpdateMagnet"} /\ w.pc = "lock" }

\* tm.mu is held exactly while one add or update goroutine is between its
\* Lock and its return: never by a GetTorrent goroutine waiting for the info,
\* never by an AddMagnet before or while it hands over to AddTorrent
LockDiscipline ==
    /\ mu <=> LockHolders # {}
    /\ \A w \in LockHolders : LockHolders = {w} /\ CopiesIn(w, workers) = 1
    /\ \A w \in Live : (w.kind = "GetTorrent" \/ w.pc \in {"stat", "load"}) => ~HoldsLock(w)

\* C25: the lock discipline holds in every state; under FairLock tm.mu,
\* once taken, is released, and the goroutines waiting for tm.mu do not wait
\* for ever (unless the process has died), Pending Torrents and their
\* GetTorrent goroutines notwithstanding.
C25_LockLiveness ==
    /\ []LockDiscipline
    /\ mu ~> (~mu \/ crashed)
    /\ (LockWaiters # {}) ~> (LockWaiters = {} \/ crashed)

\* an update holds tm.mu for a Pending Torrent whose info has not come and
\* whose GetTorrent goroutine waits
C25_Witness ==
    \E w \in Live :
        /\ w.kind = "UpdateMagnet" /\ w.pc = "write" /\ mu
        /\ w.ih \in Tracked
        /\ At(w.ih).status = torrentPending /\ ~At(w.ih).Torrent.info
        /\ NumWaiters(torrents[w.ih]) >= 1


=============================================================================
